---- MODULE Spec2Model ----
(***************************************************************************)
(* Model of the subway ridership dashboard (main.py and pages/01..06).     *)
(*                                                                         *)
(* Text is modelled as a sequence of characters.  A Hangul syllable is one *)
(* character, written here by its romanisation:                            *)
(*   "si" (hour), "seung" "cha" (boarding), "ha" "cha" (alighting),        *)
(*   "sa" "yong" "wol" (service month), "ho" "seon" "myeong" (line name),  *)
(*   "yeok" "I" "D" (station id), "ji" "ha" "cheol" "yeok" (station name), *)
(*   "deung" "rok" "il" "ja" (registration date).                          *)
(* A missing value (pandas NA / NaN, Python None) is the value NA.         *)
(***************************************************************************)
EXTENDS Integers, Sequences, FiniteSets, TLC

VARIABLES
    source,     \* the byte source handed to the raw loader: [kind, bytes]
    reader_pos, \* the read position of the file object wrapped around it
    attempts,   \* the decoding attempts made on it so far: [encoding, start]
    headers,    \* the header row of the CSV file, as read_csv returns it
    rows,       \* the data rows of the CSV file: one sequence of cells per row
    page,       \* the script that ran last: "none", "main", "p01" .. "p06"
    outcome,    \* how its loader ended: "idle", "ok", "schema_error", "raised";
                \* while reading: "decode_failed" (first attempt), "read"
    df_wide,    \* the renamed wide table of the loader: [cols, data]
    df_long,    \* the long table of the loader: [id_vars, data], data the facts
    df_raw,     \* pages/03: the copy of the DataFrame kept before the renaming
    df_pattern_normalized, \* main.py: the profiles its loader returns
    view,       \* the last computation a page ran on the loaded table
    disk,       \* the file at each fallback path: a content, or absent
    uploaded,   \* the file in the uploader of pages/06: a content, or absent
    cache,      \* st.cache_data: the results kept, by function and arguments
    built,      \* the sources a loader body has run on, in order
    called      \* the source the last call of a loader was made on

\* the session around the script runs
session == <<disk, uploaded, cache, built, called>>

vars == <<source, reader_pos, attempts, headers, rows, page, outcome, df_wide,
          df_long, df_raw, df_pattern_normalized, view, disk, uploaded, cache,
          built, called>>

NA == <<"<NA>">>

-----------------------------------------------------------------------------
(* Text helpers *)

Digits == {"0", "1", "2", "3", "4", "5", "6", "7", "8", "9"}

IsDigit(c) == c \in Digits

DigitVal(c) ==
    CASE c = "0" -> 0 [] c = "1" -> 1 [] c = "2" -> 2 [] c = "3" -> 3
      [] c = "4" -> 4 [] c = "5" -> 5 [] c = "6" -> 6 [] c = "7" -> 7
      [] c = "8" -> 8 [] c = "9" -> 9

DigitChar(n) ==
    CASE n = 0 -> "0" [] n = 1 -> "1" [] n = 2 -> "2" [] n = 3 -> "3"
      [] n = 4 -> "4" [] n = 5 -> "5" [] n = 6 -> "6" [] n = 7 -> "7"
      [] n = 8 -> "8" [] n = 9 -> "9"

\* \s of the regular expressions and the characters str.strip() removes
IsSpace(c) == c = " "

\* sub in s
Contains(s, sub) ==
    \E i \in 1..(Len(s) - Len(sub) + 1) : SubSeq(s, i, i + Len(sub) - 1) = sub

\* s.endswith(suf)
EndsWith(s, suf) ==
    /\ Len(suf) <= Len(s)
    /\ SubSeq(s, Len(s) - Len(suf) + 1, Len(s)) = suf

\* s.strip()
Strip(s) ==
    LET keep == {i \in 1..Len(s) : ~IsSpace(s[i])}
    IN  IF keep = {} THEN <<>>
        ELSE LET lo == CHOOSE i \in keep : \A j \in keep : i <= j
                 hi == CHOOSE i \in keep : \A j \in keep : j <= i
             IN  SubSeq(s, lo, hi)

\* the position of the first occurrence of character c in s, 0 when there is none
FindChar(s, c) ==
    LET at == {i \in 1..Len(s) : s[i] = c}
    IN  IF at = {} THEN 0 ELSE CHOOSE i \in at : \A j \in at : i <= j

\* s.split(c)[0]
SplitFirst(s, c) ==
    IF FindChar(s, c) = 0 THEN s ELSE SubSeq(s, 1, FindChar(s, c) - 1)

\* s.split(c)[1]; NA when the split has a single part (.str[1] of pandas)
SplitSecond(s, c) ==
    IF FindChar(s, c) = 0 THEN NA
    ELSE SplitFirst(SubSeq(s, FindChar(s, c) + 1, Len(s)), c)

\* f"{hh:02d}"
Pad2(hh) == <<DigitChar(hh \div 10), DigitChar(hh % 10)>>

SEUNGCHA == <<"seung", "cha">>
HACHA == <<"ha", "cha">>
COL_MONTH == <<"sa", "yong", "wol">>
COL_LINE == <<"ho", "seon", "myeong">>
COL_ID == <<"yeok", "I", "D">>
COL_STATION == <<"ji", "ha", "cheol", "yeok">>
COL_REGDATE == <<"deung", "rok", "il", "ja">>

-----------------------------------------------------------------------------
(* pages/06: _parse_hour *)

\* the characters of the lookahead class [:si]
HourSeparators == {":", "si"}

\* (\d{1,2})(?=[:si]) tried at position i: the number matched, -1 when none.
\* The two-digit alternative is tried first.
PrimaryMatchAt(s, i) ==
    IF /\ i + 2 <= Len(s)
       /\ IsDigit(s[i]) /\ IsDigit(s[i + 1])
       /\ s[i + 2] \in HourSeparators
    THEN 10 * DigitVal(s[i]) + DigitVal(s[i + 1])
    ELSE IF /\ i + 1 <= Len(s)
            /\ IsDigit(s[i])
            /\ s[i + 1] \in HourSeparators
         THEN DigitVal(s[i])
         ELSE -1

\* (\d{1,2})(?=\D) with the digits starting at position i
BackupDigitsAt(s, i) ==
    IF /\ i + 2 <= Len(s)
       /\ IsDigit(s[i]) /\ IsDigit(s[i + 1])
       /\ ~IsDigit(s[i + 2])
    THEN 10 * DigitVal(s[i]) + DigitVal(s[i + 1])
    ELSE IF /\ i + 1 <= Len(s)
            /\ IsDigit(s[i])
            /\ ~IsDigit(s[i + 1])
         THEN DigitVal(s[i])
         ELSE -1

\* (^|\s)(\d{1,2})(?=\D) tried at position i: "^" at the first position, then \s
BackupMatchAt(s, i) ==
    IF i = 1 /\ BackupDigitsAt(s, 1) >= 0 THEN BackupDigitsAt(s, 1)
    ELSE IF i <= Len(s) /\ IsSpace(s[i]) THEN BackupDigitsAt(s, i + 1)
         ELSE -1

\* re.search: the match at the leftmost position
RECURSIVE PrimarySearch(_, _)
PrimarySearch(s, i) ==
    IF i > Len(s) THEN -1
    ELSE IF PrimaryMatchAt(s, i) >= 0 THEN PrimaryMatchAt(s, i)
         ELSE PrimarySearch(s, i + 1)

RECURSIVE BackupSearch(_, _)
BackupSearch(s, i) ==
    IF i > Len(s) THEN -1
    ELSE IF BackupMatchAt(s, i) >= 0 THEN BackupMatchAt(s, i)
         ELSE BackupSearch(s, i + 1)

\* the number _parse_hour takes from the header, -1 when neither pattern matches
HourNumber(s) ==
    IF PrimarySearch(s, 1) >= 0 THEN PrimarySearch(s, 1) ELSE BackupSearch(s, 1)

\* the range test with its upper end off by one
HourInRangeUpTo24(hh) == 0 <= hh /\ hh <= 24

\* the range test of _parse_hour
HourInRange(hh) == 0 <= hh /\ hh <= 23

\* _parse_hour: the two-digit hour, NA for None
ParseHour(raw_col) ==
    IF HourInRange(HourNumber(raw_col)) THEN Pad2(HourNumber(raw_col)) ELSE NA

-----------------------------------------------------------------------------
(* pages/06: _rename_columns_safely *)

BaseColumns == {COL_MONTH, COL_LINE, COL_ID, COL_STATION}

\* the new name of one column, NA when the column is removed
RenameColumn(c) ==
    LET c_str == Strip(c)
    IN  IF c_str \in BaseColumns THEN c_str
        ELSE IF (Contains(c_str, SEUNGCHA) \/ Contains(c_str, HACHA))
                /\ ParseHour(c_str) # NA
             THEN ParseHour(c_str) \o <<"_">>
                  \o (IF Contains(c_str, SEUNGCHA) THEN SEUNGCHA ELSE HACHA)
             ELSE NA

\* the positions of the columns that are kept
KeepMask(cols) == {i \in 1..Len(cols) : RenameColumn(cols[i]) # NA}

-----------------------------------------------------------------------------
(* Reading the file: pd.read_csv *)

\* cell texts that read_csv turns into a missing value (its default na_values)
NATexts == {<<>>, <<"N", "/", "A">>, <<"n", "a", "n">>}

ReadCell(text) == IF text \in NATexts THEN NA ELSE text

\* the position of the column named name in cols, 0 when there is none
ColumnIndex(cols, name) == FindChar(cols, name)

HasColumn(cols, name) == ColumnIndex(cols, name) # 0

\* the DataFrame read_csv returns: its data rows, cell by cell
ReadRows(file_rows) ==
    [r \in 1..Len(file_rows) |->
        [c \in 1..Len(file_rows[r]) |-> ReadCell(file_rows[r][c])]]

\* a dropna that looks at the station name only
DropNAStationOnly(cols, data, key_cols) ==
    SelectSeq(data, LAMBDA row :
        \A k \in key_cols \cap {COL_STATION} : row[ColumnIndex(cols, k)] # NA)

\* df.dropna(subset=key_cols): the rows with a value in every key column
DropNA(cols, data, key_cols) ==
    SelectSeq(data, LAMBDA row :
        \A k \in key_cols : row[ColumnIndex(cols, k)] # NA)

\* the subsequence of s at the positions in keep, in order
RECURSIVE TakeAt(_, _, _)
TakeAt(s, keep, i) ==
    IF i > Len(s) THEN <<>>
    ELSE (IF i \in keep THEN <<s[i]>> ELSE <<>>) \o TakeAt(s, keep, i + 1)

-----------------------------------------------------------------------------
(* Numeric conversion of a cell: pd.to_numeric(errors='coerce'), fillna(0),  *)
(* astype(int)                                                               *)

\* str.replace(',', '')
RemoveCommas(t) == SelectSeq(t, LAMBDA c : c # ",")

RECURSIVE DigitsValue(_)
DigitsValue(t) ==
    IF t = <<>> THEN 0
    ELSE 10 * DigitsValue(SubSeq(t, 1, Len(t) - 1)) + DigitVal(t[Len(t)])

\* digits with at most one decimal point and at least one digit
IsDecimalText(t) ==
    /\ \A i \in 1..Len(t) : IsDigit(t[i]) \/ t[i] = "."
    /\ \E i \in 1..Len(t) : IsDigit(t[i])
    /\ Cardinality({i \in 1..Len(t) : t[i] = "."}) <= 1

\* to_numeric of one text: a number (kept here by its integer part, which is
\* all astype(int) keeps), an infinity, or NaN for what does not parse
ToNumeric(t) ==
    LET signed == t # <<>> /\ t[1] = "-"
        body == IF signed THEN Tail(t) ELSE t
    IN  IF t = NA THEN [kind |-> "nan", val |-> 0]
        ELSE IF body = <<"i", "n", "f">> THEN [kind |-> "inf", val |-> 0]
        ELSE IF IsDecimalText(body)
             THEN [kind |-> "num",
                   val |-> (IF signed THEN -1 ELSE 1)
                           * DigitsValue(SplitFirst(body, "."))]
             ELSE [kind |-> "nan", val |-> 0]

\* .fillna(0).astype(int) of one value: astype raises on a non-finite value
FillnaAstypeInt(x) ==
    CASE x.kind = "num" -> [raised |-> FALSE, val |-> x.val]
      [] x.kind = "nan" -> [raised |-> FALSE, val |-> 0]
      [] x.kind = "inf" -> [raised |-> TRUE, val |-> 0]

\* pages/06: to_numeric(df[col].astype(str).str.replace(',', '')).fillna(0).astype('int64')
ConvertCell06(cell) ==
    FillnaAstypeInt(ToNumeric(IF cell = NA THEN NA ELSE RemoveCommas(cell)))

\* read_csv gives a column the dtype object when a cell of it is no number
IsObjectColumn(cells) ==
    \E i \in 1..Len(cells) :
        cells[i] # NA /\ ToNumeric(cells[i]).kind = "nan"

\* main.py: the two branches on df[col].dtype
ConvertCellMain(cell, is_object) ==
    IF is_object
    THEN FillnaAstypeInt(ToNumeric(IF cell = NA THEN NA ELSE RemoveCommas(cell)))
    ELSE FillnaAstypeInt(ToNumeric(cell))

-----------------------------------------------------------------------------
(* Wide to long: df.melt and the split of the column name *)

SUFFIX_SEUNGCHA == <<"_">> \o SEUNGCHA
SUFFIX_HACHA == <<"_">> \o HACHA

\* the value of column name in a row of a table with columns cols, NA when the
\* table has no such column
Field(cols, row, name) ==
    IF HasColumn(cols, name) THEN row[ColumnIndex(cols, name)] ELSE NA

\* one row of the long table: the identity values of a wide row, with the hour
\* and the direction split from the column name, and the count
Fact(cols, row, j) ==
    [month   |-> Field(cols, row, COL_MONTH),
     line    |-> Field(cols, row, COL_LINE),
     id      |-> Field(cols, row, COL_ID),
     station |-> Field(cols, row, COL_STATION),
     hour    |-> SplitFirst(cols[j], "_"),
     dir     |-> SplitSecond(cols[j], "_"),
     count   |-> row[j]]

\* the rows melt makes of value column j: one per row of the wide table, in order
RECURSIVE MeltColumn(_, _, _, _)
MeltColumn(cols, data, j, r) ==
    IF r > Len(data) THEN <<>>
    ELSE <<Fact(cols, data[r], j)>> \o MeltColumn(cols, data, j, r + 1)

\* df.melt(id_vars=id_vars): every column that is no id_var, column after column
RECURSIVE Melt(_, _, _, _)
Melt(cols, data, id_vars, j) ==
    IF j > Len(cols) THEN <<>>
    ELSE (IF cols[j] \in id_vars THEN <<>> ELSE MeltColumn(cols, data, j, 1))
         \o Melt(cols, data, id_vars, j + 1)

\* a column label that names more than one column: df[col] is then a DataFrame
IsDuplicated(cols, j) == \E k \in 1..Len(cols) : k # j /\ cols[k] = cols[j]

NoTable == [cols |-> <<>>, data |-> <<>>]
NoLong == [id_vars |-> {}, data |-> <<>>]
Failed(how) == [outcome |-> how, wide |-> NoTable, long |-> NoLong]

-----------------------------------------------------------------------------
(* pages/06: load_and_prep_data, from the DataFrame on *)

\* value_cols taken to be every column but the station name
ValueColsNonStation(cols) == {j \in 1..Len(cols) : cols[j] # COL_STATION}

\* value_cols: the positions of the columns named ..._seungcha or ..._hacha
ValueCols06(cols) ==
    {j \in 1..Len(cols) :
        EndsWith(cols[j], SUFFIX_SEUNGCHA) \/ EndsWith(cols[j], SUFFIX_HACHA)}

\* key_cols of the dropna
KeyCols06(cols) == {k \in {COL_LINE, COL_STATION} : HasColumn(cols, k)}

\* the columns after _rename_columns_safely
RenamedColumns(cols) ==
    LET kept == TakeAt(cols, KeepMask(cols), 1)
    IN  [j \in 1..Len(kept) |-> RenameColumn(kept[j])]

LoadAndPrepData(file_headers, file_rows) ==
    IF ~HasColumn(file_headers, COL_STATION) THEN Failed("schema_error")
    ELSE
    LET df0 == DropNA(file_headers, ReadRows(file_rows), KeyCols06(file_headers))
        cols == RenamedColumns(file_headers)
        df1 == [r \in 1..Len(df0) |-> TakeAt(df0[r], KeepMask(file_headers), 1)]
        value_cols == ValueCols06(cols)
        conv(r, j) == ConvertCell06(df1[r][j])
        df2 == [r \in 1..Len(df1) |->
                   [j \in 1..Len(cols) |->
                       IF j \in value_cols THEN conv(r, j).val ELSE df1[r][j]]]
        id_vars == {c \in BaseColumns : HasColumn(cols, c)}
    IN  IF value_cols = {} THEN Failed("schema_error")
        ELSE IF \E j \in value_cols : IsDuplicated(cols, j) THEN Failed("raised")
        ELSE IF \E r \in 1..Len(df1) : \E j \in value_cols : conv(r, j).raised
             THEN Failed("raised")
        ELSE [outcome |-> "ok",
              wide |-> [cols |-> cols, data |-> df2],
              long |-> [id_vars |-> id_vars,
                        data |-> Melt(cols, df2, id_vars, 1)]]

-----------------------------------------------------------------------------
(* main.py and pages/01..05: load_data, from the DataFrame on *)

\* df.columns[i].split('~')[0][:2]
TimeStr(header) ==
    LET head == SplitFirst(header, "~")
    IN  SubSeq(head, 1, IF Len(head) < 2 THEN Len(head) ELSE 2)

\* the names appended for range(4, n, 2): two for every second position
RECURSIVE PositionalNames(_, _)
PositionalNames(cols, i) ==
    IF i > Len(cols) THEN <<>>
    ELSE <<TimeStr(cols[i]) \o SUFFIX_SEUNGCHA, TimeStr(cols[i]) \o SUFFIX_HACHA>>
         \o PositionalNames(cols, i + 2)

IdentityNames == <<COL_MONTH, COL_LINE, COL_ID, COL_STATION>>

\* col_names
ColNames(cols) == IdentityNames \o PositionalNames(cols, Len(IdentityNames) + 1)

\* value_cols: the positions of the columns whose name contains a suffix
ValueColsMain(cols) ==
    {j \in 1..Len(cols) :
        Contains(cols[j], SUFFIX_SEUNGCHA) \/ Contains(cols[j], SUFFIX_HACHA)}

\* the cells of column j of the DataFrame
ColumnCells(data, j) == [r \in 1..Len(data) |-> data[r][j]]

LoadData(file_headers, file_rows) ==
    IF ~HasColumn(file_headers, COL_LINE) \/ ~HasColumn(file_headers, COL_STATION)
    THEN Failed("raised")
    ELSE
    LET read == ReadRows(file_rows)
        df0 == DropNA(file_headers, read, {COL_LINE, COL_STATION})
        n == Len(file_headers) - 1
        cols0 == SubSeq(file_headers, 1, n)
        cols == ColNames(cols0)
        value_cols == ValueColsMain(cols)
        conv(r, j) == ConvertCellMain(df0[r][j], IsObjectColumn(ColumnCells(read, j)))
        df2 == [r \in 1..Len(df0) |->
                   [j \in 1..n |->
                       IF j \in value_cols THEN conv(r, j).val ELSE df0[r][j]]]
        id_vars == {IdentityNames[k] : k \in 1..Len(IdentityNames)}
    IN  IF Len(cols) # n THEN Failed("raised")
        ELSE IF \E j \in value_cols : IsDuplicated(cols, j) THEN Failed("raised")
        ELSE IF \E r \in 1..Len(df0) : \E j \in value_cols : conv(r, j).raised
             THEN Failed("raised")
        ELSE [outcome |-> "ok",
              wide |-> [cols |-> cols, data |-> df2],
              long |-> [id_vars |-> id_vars,
                        data |-> Melt(cols, df2, id_vars, 1)]]

\* main.py: df_pattern.div(df_pattern.sum(axis=1), axis=0).fillna(0) of one
\* value: 0/0 is NaN and becomes 0; a denominator 0 stands for the infinity
\* x/0 that fillna leaves
Share(x, total) ==
    IF total = 0 /\ x = 0 THEN [num |-> 0, den |-> 1]
    ELSE [num |-> x, den |-> total]

\* ride_cols + alight_cols
PatternCols(cols) ==
    SelectSeq([j \in 1..Len(cols) |-> j],
              LAMBDA j : Contains(cols[j], SUFFIX_SEUNGCHA))
    \o SelectSeq([j \in 1..Len(cols) |-> j],
                 LAMBDA j : Contains(cols[j], SUFFIX_HACHA))

RECURSIVE SumSeq(_)
SumSeq(q) == IF q = <<>> THEN 0 ELSE q[1] + SumSeq(Tail(q))

\* df_pattern_normalized: one profile per row of the wide table
PatternNormalized(df) ==
    LET pattern_cols == PatternCols(df.cols)
    IN  [r \in 1..Len(df.data) |->
            LET counts == [c \in 1..Len(pattern_cols) |-> df.data[r][pattern_cols[c]]]
            IN  [line |-> Field(df.cols, df.data[r], COL_LINE),
                 station |-> Field(df.cols, df.data[r], COL_STATION),
                 values |-> [c \in 1..Len(counts) |->
                                Share(counts[c], SumSeq(counts))]]]

-----------------------------------------------------------------------------
(* Order of texts: Python and pandas compare str by code point *)

CodePoint(c) ==
    CASE c = " " -> 32 [] c = "(" -> 40 [] c = ")" -> 41 [] c = "," -> 44
      [] c = "-" -> 45 [] c = "." -> 46 [] c = "/" -> 47
      [] c \in Digits -> 48 + DigitVal(c)
      [] c = ":" -> 58 [] c = "A" -> 65 [] c = "B" -> 66 [] c = "C" -> 67
      [] c = "D" -> 68 [] c = "E" -> 69 [] c = "F" -> 70 [] c = "G" -> 71
      [] c = "N" -> 78
      [] c = "_" -> 95 [] c = "a" -> 97 [] c = "f" -> 102 [] c = "i" -> 105
      [] c = "m" -> 109 [] c = "n" -> 110 [] c = "~" -> 126
      [] c = "gan" -> 44036 [] c = "deung" -> 46321 [] c = "rok" -> 47197
      [] c = "myeong" -> 47749 [] c = "sa" -> 49324 [] c = "seon" -> 49440
      [] c = "seung" -> 49849 [] c = "si" -> 49884 [] c = "yeok" -> 50669
      [] c = "oe" -> 50808 [] c = "yong" -> 50857 [] c = "wol" -> 50900
      [] c = "il" -> 51068 [] c = "ja" -> 51088 [] c = "ji" -> 51648
      [] c = "cha" -> 52264 [] c = "cheol" -> 52384 [] c = "ha" -> 54616
      [] c = "ho" -> 54840

\* s < t
RECURSIVE StrLess(_, _)
StrLess(s, t) ==
    IF t = <<>> THEN FALSE
    ELSE IF s = <<>> THEN TRUE
    ELSE IF s[1] = t[1] THEN StrLess(Tail(s), Tail(t))
    ELSE CodePoint(s[1]) < CodePoint(t[1])

StrLeq(s, t) == s = t \/ StrLess(s, t)

\* sorted(S) for a set of texts
RECURSIVE SortStrings(_)
SortStrings(S) ==
    IF S = {} THEN <<>>
    ELSE LET m == CHOOSE x \in S : \A y \in S : StrLeq(x, y)
         IN  <<m>> \o SortStrings(S \ {m})

\* a station key as groupby and sorted(key=...) order it: a (line, station)
\* pair, or a station alone (line = NA)
KeyLess(a, b, by_station_first) ==
    LET a1 == IF by_station_first THEN a.station ELSE a.line
        a2 == IF by_station_first THEN a.line ELSE a.station
        b1 == IF by_station_first THEN b.station ELSE b.line
        b2 == IF by_station_first THEN b.line ELSE b.station
    IN  IF a1 = b1 THEN StrLess(a2, b2) ELSE StrLess(a1, b1)

RECURSIVE SortKeys(_, _)
SortKeys(S, by_station_first) ==
    IF S = {} THEN <<>>
    ELSE LET m == CHOOSE x \in S :
                     \A y \in S : x = y \/ KeyLess(x, y, by_station_first)
         IN  <<m>> \o SortKeys(S \ {m}, by_station_first)

\* the sum of the counts of a sequence of facts
RECURSIVE SumCounts(_)
SumCounts(facts) ==
    IF facts = <<>> THEN 0 ELSE facts[1].count + SumCounts(Tail(facts))

\* the key of a fact: with its line, or by station name alone
KeyOf(f, combine_stations) ==
    [line |-> IF combine_stations THEN NA ELSE f.line, station |-> f.station]

Keys(facts, combine_stations) ==
    {KeyOf(facts[i], combine_stations) : i \in 1..Len(facts)}

\* nlargest(n) of rows with a count: the largest first, equal counts in the
\* order they had
RECURSIVE NLargest(_, _)
NLargest(rs, n) ==
    IF n = 0 \/ rs = <<>> THEN <<>>
    ELSE LET best == CHOOSE i \in 1..Len(rs) :
                        /\ \A k \in 1..Len(rs) : rs[k].count <= rs[i].count
                        /\ \A k \in 1..(i - 1) : rs[k].count < rs[i].count
         IN  <<rs[best]>>
             \o NLargest(SubSeq(rs, 1, best - 1) \o SubSeq(rs, best + 1, Len(rs)),
                         n - 1)

\* sort_values(by count, ascending): the sort of a short column keeps equal
\* counts in the order they had
RECURSIVE SortAscending(_)
SortAscending(rs) ==
    IF rs = <<>> THEN <<>>
    ELSE LET least == CHOOSE i \in 1..Len(rs) :
                         /\ \A k \in 1..Len(rs) : rs[i].count <= rs[k].count
                         /\ \A k \in 1..(i - 1) : rs[i].count < rs[k].count
         IN  <<rs[least]>>
             \o SortAscending(SubSeq(rs, 1, least - 1)
                              \o SubSeq(rs, least + 1, Len(rs)))

-----------------------------------------------------------------------------
(* The files the model is run on *)

MaxCols == 2
MaxRows == 2

LINE_1 == <<"1">>
LINE_2 == <<"2">>
STATION_A == <<"A">>
STATION_B == <<"B">>

\* hourly headers of the schema family: "04si seungcha", "04si hacha",
\* "23:seungcha", "4 seungcha", "25si seungcha" and "si gan oe" (outside hours)
HourlyPool ==
    { <<"0", "4", "si", "seung", "cha">>,
      <<"0", "4", "si", "ha", "cha">>,
      <<"2", "3", ":", "seung", "cha">>,
      <<"4", " ", "seung", "cha">>,
      <<"2", "5", "si", "seung", "cha">>,
      <<"si", "gan", "oe">> }

\* read_csv never returns the same header twice
DistinctSeqs(pool, n) ==
    {q \in UNION {[1..k -> pool] : k \in 0..n} :
        \A i, j \in 1..Len(q) : i # j => q[i] # q[j]}

\* the identity columns a file may have: all four, or the line name or the
\* station name missing
IdentityParts ==
    { <<COL_MONTH, COL_LINE, COL_ID, COL_STATION>>,
      <<COL_MONTH, COL_ID, COL_STATION>>,
      <<COL_MONTH, COL_LINE, COL_ID>>,
      <<COL_MONTH, COL_ID>> }

\* one row of a file with the given headers
FileRow(hdrs, line, station, counts) ==
    [i \in 1..Len(hdrs) |->
        CASE hdrs[i] = COL_MONTH -> <<"m">>
          [] hdrs[i] = COL_LINE -> line
          [] hdrs[i] = COL_ID -> <<"7">>
          [] hdrs[i] = COL_STATION -> station
          [] hdrs[i] = COL_REGDATE -> <<"9">>
          [] OTHER -> counts[i]]

\* rows of the schema family: complete, or with an empty line or station cell
RowKinds == { <<LINE_1, STATION_A>>, <<<<>>, STATION_A>>, <<LINE_1, <<>>>> }

InitSchemaFile ==
    \E idp \in IdentityParts, hs \in DistinctSeqs(HourlyPool, MaxCols),
       ks \in UNION {[1..k -> RowKinds] : k \in 0..MaxRows} :
        /\ headers = idp \o hs \o <<COL_REGDATE>>
        /\ rows = [r \in 1..Len(ks) |->
                      FileRow(idp \o hs \o <<COL_REGDATE>>, ks[r][1], ks[r][2],
                              [i \in 1..(Len(idp) + Len(hs) + 1) |-> <<"1">>])]

\* the hourly headers of a well-formed file: a boarding and an alighting column
\* for each hour of a list
RECURSIVE HourPairs(_)
HourPairs(hours) ==
    IF hours = <<>> THEN <<>>
    ELSE <<hours[1] \o <<"si">> \o SEUNGCHA, hours[1] \o <<"si">> \o HACHA>>
         \o HourPairs(Tail(hours))

HourLists == { << <<"0", "8">>, <<"0", "9">> >>, << <<"2", "3">>, <<"0", "1">> >> }

InitDataFile ==
    \E hl \in HourLists :
      LET hdrs == IdentityNames \o HourPairs(hl) \o <<COL_REGDATE>>
          RowChoices == {LINE_1, LINE_2} \X {STATION_A, STATION_B}
                          \X (0..Len(hdrs))
      IN  \E cs \in UNION {[1..k -> RowChoices] : k \in 0..MaxRows} :
            /\ headers = hdrs
            /\ rows = [r \in 1..Len(cs) |->
                          FileRow(hdrs, cs[r][1], cs[r][2],
                                  [i \in 1..Len(hdrs) |->
                                      IF i = cs[r][3] THEN <<"2">> ELSE <<"1">>])]

\* the hour labels of a service day: 04, 05, ..., 23, 00, 01
HourOrder == [i \in 1..22 |-> Pad2((i + 3) % 24)]

MaxDayRows == 3

\* the rows of the day family: a station on two lines, with one or two
\* passengers in every hourly cell, and a second station with three
DayRowChoices ==
    { <<<<LINE_1, STATION_A>>, <<"1">>>>, <<<<LINE_1, STATION_A>>, <<"2">>>>,
      <<<<LINE_2, STATION_A>>, <<"1">>>>, <<<<LINE_1, STATION_B>>, <<"3">>>> }

\* a file with a boarding and an alighting column for every hour of the day
InitDayFile ==
    LET hdrs == IdentityNames \o HourPairs(HourOrder) \o <<COL_REGDATE>>
    IN  \E cs \in UNION {[1..k -> DayRowChoices] : k \in 0..MaxDayRows} :
          /\ headers = hdrs
          /\ rows = [r \in 1..Len(cs) |->
                        FileRow(hdrs, cs[r][1][1], cs[r][1][2],
                                [i \in 1..Len(hdrs) |-> cs[r][2]])]

NoView == [kind |-> "none"]

\* a script that stopped with an exception after its loader returned
ViewRaised == [kind |-> "raised"]

NoSource == [kind |-> "none", bytes |-> <<>>]

\* the loaders below start from the DataFrame read_csv returned
AlreadyRead == source = NoSource /\ reader_pos = 0 /\ attempts = <<>>

Absent == "absent"

\* the paths load_and_prep_data falls back to, in the order it tries them; the
\* second is also the path load_data of main.py reads
FallbackPaths == <<"/mnt/data/jihacheol-deiteo.csv", "jihacheol-deiteo.csv">>

\* the cached loaders
LOAD_AND_PREP_DATA == "load_and_prep_data"
LOAD_DATA == "load_data"

\* the contents a source can have, each named by the count in its cells
SourceContents == {"1", "2"}

\* no file at any path, no file in the uploader, no call yet
NoDisk == [p \in {FallbackPaths[k] : k \in 1..Len(FallbackPaths)} |-> Absent]
NoUpload == [bytes |-> Absent, name |-> Absent]
NoCall == [fn |-> Absent]
NoBuilds == [b \in {LOAD_AND_PREP_DATA, LOAD_DATA} \X SourceContents |-> 0]

\* one script run on one file: nothing cached before it
FreshSession ==
    /\ disk = NoDisk /\ uploaded = NoUpload /\ cache = {} /\ built = NoBuilds
    /\ called = NoCall

NoProfiles == <<>>

Idle ==
    /\ AlreadyRead
    /\ FreshSession
    /\ df_pattern_normalized = NoProfiles
    /\ page = "none"
    /\ outcome = "idle"
    /\ df_wide = NoTable
    /\ df_long = NoLong
    /\ df_raw = NoTable
    /\ view = NoView

Init == (InitSchemaFile \/ InitDataFile) /\ Idle

-----------------------------------------------------------------------------
(* Running a script: its loader *)

\* A behaviour follows one run of one script: its loader, then the view it
\* draws for one setting of its widgets.  (Streamlit runs the script again from
\* the top for every other setting.)
Loaded(p, res) ==
    /\ page = "none"
    /\ page' = p
    /\ outcome' = res.outcome
    /\ df_wide' = res.wide
    /\ df_long' = res.long
    /\ view' = NoView
    /\ df_pattern_normalized' = IF p = "main" /\ res.outcome = "ok"
                                 THEN PatternNormalized(res.wide)
                                 ELSE NoProfiles
    /\ UNCHANGED <<source, reader_pos, attempts, headers, rows, session>>

RunMain == Loaded("main", LoadData(headers, rows)) /\ df_raw' = NoTable

RunPage01 == Loaded("p01", LoadData(headers, rows)) /\ df_raw' = NoTable

RunPage02 == Loaded("p02", LoadData(headers, rows)) /\ df_raw' = NoTable

\* pages/03 also returns df_raw: the DataFrame after dropna, all columns kept
RawTable(file_headers, file_rows) ==
    [cols |-> file_headers,
     data |-> DropNA(file_headers, ReadRows(file_rows), {COL_LINE, COL_STATION})]

RunPage03 ==
    LET res == LoadData(headers, rows)
    IN  /\ Loaded("p03", res)
        /\ df_raw' = IF res.outcome = "ok" THEN RawTable(headers, rows)
                     ELSE NoTable

RunPage04 == Loaded("p04", LoadData(headers, rows)) /\ df_raw' = NoTable

\* pages/05 returns the wide table only
RunPage05 ==
    /\ Loaded("p05", [LoadData(headers, rows) EXCEPT !.long = NoLong])
    /\ df_raw' = NoTable

RunPage06 == Loaded("p06", LoadAndPrepData(headers, rows)) /\ df_raw' = NoTable

-----------------------------------------------------------------------------
(* pages/03: get_pattern_data *)

RECURSIVE SumOver(_, _)
SumOver(S, f) ==
    IF S = {} THEN 0
    ELSE LET x == CHOOSE x \in S : TRUE
         IN  f[x] + SumOver(S \ {x}, f)

\* the number a melted cell becomes.  When a column of the file is text, the
\* melted column is of dtype object: .str.replace gives NaN for every cell
\* that is no text, and fillna(0) makes it 0.  Otherwise the cells are numbers
\* already and sum() skips the missing ones.  (Whole numbers only: the files
\* of the model hold no decimal fraction.)
PatternValue(cell, col_is_object, any_object) ==
    LET x == IF any_object
             THEN (IF col_is_object /\ cell # NA
                   THEN ToNumeric(RemoveCommas(cell))
                   ELSE [kind |-> "nan", val |-> 0])
             ELSE ToNumeric(cell)
    IN  IF x.kind = "nan" THEN [kind |-> "num", val |-> 0] ELSE x

\* MinMaxScaler: (x - min) / (max - min) per column, a column without range
\* scaled by 1; the value is kept as a fraction
MinMaxScaled(x, column) ==
    LET lo == CHOOSE v \in column : \A w \in column : v <= w
        hi == CHOOSE v \in column : \A w \in column : w <= v
    IN  [num |-> x - lo, den |-> IF hi = lo THEN 1 ELSE hi - lo]

\* read is the DataFrame as read_csv returned it, which fixed the dtypes
GetPatternData(raw, read, combine_stations) ==
    LET id_vars == {IdentityNames[k] : k \in 1..Len(IdentityNames)}
        value_pos == {j \in 1..Len(raw.cols) : raw.cols[j] \notin id_vars}
        is_object == [j \in value_pos |-> IsObjectColumn(ColumnCells(read, j))]
        any_object == \E j \in value_pos : is_object[j]
        name == [j \in value_pos |-> SplitFirst(raw.cols[j], "~")]
        value == [r \in 1..Len(raw.data) |-> [j \in value_pos |->
                     PatternValue(raw.data[r][j], is_object[j], any_object)]]
        key == [r \in 1..Len(raw.data) |->
                   [line |-> IF combine_stations THEN NA
                             ELSE Field(raw.cols, raw.data[r], COL_LINE),
                    station |-> Field(raw.cols, raw.data[r], COL_STATION)]]
        index == SortKeys({key[r] : r \in 1..Len(raw.data)}, combine_stations)
        columns == SortStrings({name[j] : j \in value_pos})
        cells(k, c) == {<<r, j>> \in (1..Len(raw.data)) \X value_pos :
                           key[r] = k /\ name[j] = c}
        total(k, c) == SumOver(cells(k, c),
                               [x \in cells(k, c) |-> value[x[1]][x[2]].val])
        sums == [i \in 1..Len(index) |-> [c \in 1..Len(columns) |->
                    total(index[i], columns[c])]]
    IN  IF \E v \in id_vars : ~HasColumn(raw.cols, v) THEN ViewRaised
        ELSE IF \E r \in 1..Len(raw.data) : \E j \in value_pos :
                    value[r][j].kind = "inf" THEN ViewRaised
        ELSE IF index = <<>> THEN ViewRaised
        ELSE [kind |-> "pattern",
              combine_stations |-> combine_stations,
              index |-> index,
              columns |-> columns,
              values |-> [i \in 1..Len(index) |-> [c \in 1..Len(columns) |->
                             MinMaxScaled(sums[i][c],
                                 {sums[k][c] : k \in 1..Len(index)})]]]

\* what a view action leaves alone
\* what no view assigns to
RunKept ==
    UNCHANGED <<source, reader_pos, attempts, headers, rows, page, outcome,
                df_wide, df_raw, df_pattern_normalized, session>>

LoadKept == RunKept /\ UNCHANGED df_long

ViewPage03(combine_stations) ==
    /\ page = "p03" /\ outcome = "ok" /\ view = NoView
    /\ view' = GetPatternData(df_raw, ReadRows(rows), combine_stations)
    /\ LoadKept

-----------------------------------------------------------------------------
(* pages/01: the busiest stations of a time window *)

\* the values of a sequence, as a set
Range(q) == {q[i] : i \in 1..Len(q)}

\* groupby(keys)[count].sum(): one row per key, in key order
GroupSums(facts, combine_stations) ==
    LET index == SortKeys(Keys(facts, combine_stations), combine_stations)
    IN  [i \in 1..Len(index) |->
            [line |-> index[i].line,
             station |-> index[i].station,
             count |-> SumCounts(SelectSeq(facts,
                          LAMBDA f : KeyOf(f, combine_stations) = index[i]))]]

\* filtered_ride / filtered_alight: the comparisons are comparisons of str
FilterWindow(facts, dir, start_time, end_time) ==
    SelectSeq(facts, LAMBDA f :
        /\ f.dir = dir
        /\ StrLeq(start_time, f.hour)
        /\ StrLeq(f.hour, end_time))

\* station_ride / station_alight
WindowRanking(facts, dir, start_time, end_time, top_n, combine_stations) ==
    SortAscending(NLargest(
        GroupSums(FilterWindow(facts, dir, start_time, end_time), combine_stations),
        top_n))

\* time_list: the options of the slider
TimeList(facts) == SortStrings({facts[i].hour : i \in 1..Len(facts)})

\* value=('08', '09')
DefaultWindow == << <<"0", "8">>, <<"0", "9">> >>

\* the slider stops the model moves the window to
SliderStops == { <<"0", "1">>, <<"0", "8">>, <<"0", "9">>, <<"2", "3">> }

\* the ends of the TOP N slider
TopNChoices01 == {5, 20}

\* select_slider raises when a default is not among its options, and returns
\* its two ends in the order of the options
ViewPage01(start_time, end_time, top_n, combine_stations) ==
    /\ page = "p01" /\ outcome = "ok" /\ view = NoView
    /\ LET time_list == Range(TimeList(df_long.data))
       IN  IF ~(Range(DefaultWindow) \subseteq time_list)
           THEN view' = ViewRaised
           ELSE /\ start_time \in time_list /\ end_time \in time_list
                /\ StrLeq(start_time, end_time)
                /\ view' =
                     [kind |-> "ranking",
                      start_time |-> start_time,
                      end_time |-> end_time,
                      top_n |-> top_n,
                      combine_stations |-> combine_stations,
                      station_ride |->
                          WindowRanking(df_long.data, SEUNGCHA, start_time,
                                        end_time, top_n, combine_stations),
                      station_alight |->
                          WindowRanking(df_long.data, HACHA, start_time,
                                        end_time, top_n, combine_stations)]
    /\ LoadKept

-----------------------------------------------------------------------------
(* pages/04: the busiest station of every hour *)

\* the facts of one hour and direction, in the order of the long table
FactsAt(facts, hour, dir) ==
    SelectSeq(facts, LAMBDA f : f.hour = hour /\ f.dir = dir)

\* the groups of groupby(['hour', 'direction'])
HourDirs(facts) == {<<facts[i].hour, facts[i].dir>> : i \in 1..Len(facts)}

\* idxmax: the first row that holds the largest count
IdxMax(rs) == NLargest(rs, 1)[1]

\* top_station_info: the station counts are summed by name first; the rows
\* of a group stand in the order of the station names
TopStationInfo(facts) ==
    {LET top == IdxMax(GroupSums(FactsAt(facts, hd[1], hd[2]), TRUE))
     IN  [hour |-> hd[1], dir |-> hd[2], line |-> NA,
          station |-> top.station, count |-> top.count] : hd \in HourDirs(facts)}

\* top_stations_by_time_individual: idxmax over the rows of the long table
TopStationsIndividual(facts) ==
    {LET top == IdxMax(FactsAt(facts, hd[1], hd[2]))
     IN  [hour |-> hd[1], dir |-> hd[2], line |-> top.line,
          station |-> top.station, count |-> top.count] : hd \in HourDirs(facts)}

\* the champions are kept as a set: the sort by hour that follows leaves the
\* order of the two directions of an hour open
ViewPage04(combine_stations) ==
    /\ page = "p04" /\ outcome = "ok" /\ view = NoView
    /\ view' = [kind |-> "champions",
                combine_stations |-> combine_stations,
                champions |-> IF combine_stations
                              THEN TopStationInfo(df_long.data)
                              ELSE TopStationsIndividual(df_long.data)]
    /\ LoadKept

-----------------------------------------------------------------------------
(* pages/05: two stations compared *)

GANGNAM == <<"gang", "nam">>
HONGDAE == <<"hong", "dae", "ip", "gu">>
LINE_2HO == <<"2", "ho", "seon">>

\* time_slots
TimeSlots == HourOrder

RowKey(df, r, combine_stations) ==
    [line |-> IF combine_stations THEN NA ELSE Field(df.cols, df.data[r], COL_LINE),
     station |-> Field(df.cols, df.data[r], COL_STATION)]

\* station_list, as the set of its entries; an entry stands in the list once
\* (combined) or once for every row that has it (individual)
StationList(df, combine_stations) ==
    {RowKey(df, r, combine_stations) : r \in 1..Len(df.data)}

StationListLen(df, combine_stations) ==
    IF combine_stations THEN Cardinality(StationList(df, TRUE)) ELSE Len(df.data)

\* the defaults: station_list[0] and station_list[1] (combined), index 0 and 1
\* of the selectbox (individual), unless the named station is in the list
DefaultsRaise(df, combine_stations) ==
    LET list == StationList(df, combine_stations)
        first == [line |-> IF combine_stations THEN NA ELSE LINE_2HO,
                  station |-> GANGNAM]
        second == [line |-> IF combine_stations THEN NA ELSE LINE_2HO,
                   station |-> HONGDAE]
        n == StationListLen(df, combine_stations)
    IN  \/ first \notin list /\ n < 1
        \/ second \notin list /\ n < 2

\* station1_data: the sum of the station's rows (combined), the first of the
\* rows of the (line, station) pair (individual)
StationData(df, key, combine_stations) ==
    LET mine == SelectSeq([r \in 1..Len(df.data) |-> r],
                          LAMBDA r : RowKey(df, r, combine_stations) = key)
        used == IF combine_stations THEN mine ELSE <<mine[1]>>
    IN  [j \in 1..Len(df.cols) |->
            IF j \in ValueColsMain(df.cols)
            THEN SumOver(Range(used), [r \in Range(used) |-> df.data[r][j]])
            ELSE 0]

\* station1_data[f'{t}_...'] raises KeyError for a column the table lacks
MissingSlot(df) ==
    \E t \in 1..Len(TimeSlots) :
        \/ ~HasColumn(df.cols, TimeSlots[t] \o SUFFIX_SEUNGCHA)
        \/ ~HasColumn(df.cols, TimeSlots[t] \o SUFFIX_HACHA)

\* the rows of data_to_plot of one station
PlotSeries(df, key, combine_stations) ==
    LET station_data == StationData(df, key, combine_stations)
    IN  [t \in 1..Len(TimeSlots) |->
            [hour |-> TimeSlots[t],
             ride |-> station_data[ColumnIndex(df.cols, TimeSlots[t] \o SUFFIX_SEUNGCHA)],
             alight |-> station_data[ColumnIndex(df.cols, TimeSlots[t] \o SUFFIX_HACHA)]]]

ViewPage05(combine_stations, station1, station2) ==
    /\ page = "p05" /\ outcome = "ok" /\ view = NoView
    /\ IF DefaultsRaise(df_wide, combine_stations) \/ MissingSlot(df_wide)
       THEN view' = ViewRaised
       ELSE /\ station1 \in StationList(df_wide, combine_stations)
            /\ station2 \in StationList(df_wide, combine_stations)
            /\ view' = [kind |-> "compare",
                        combine_stations |-> combine_stations,
                        station1 |-> station1,
                        station2 |-> station2,
                        series1 |-> PlotSeries(df_wide, station1, combine_stations),
                        series2 |-> PlotSeries(df_wide, station2, combine_stations)]
    /\ LoadKept

\* the keys a selectbox of the model's files can hold
AllKeys ==
    [line : {NA, LINE_1, LINE_2}, station : {STATION_A, STATION_B}]

-----------------------------------------------------------------------------
(* pages/06: get_cumulative_data and the TOP N of every hour *)

JONGHAP == <<"jong", "hap">>

\* desired: 04..23, then 00..03
Desired == [i \in 1..24 |-> Pad2((i + 3) % 24)]

\* the label of a group: the station name, with its line in brackets when
\* the groups are (line, station) pairs
Label(key) ==
    IF key.line = NA THEN key.station
    ELSE key.station \o <<"(">> \o key.line \o <<")">>

\* the concatenation of the sequences of a sequence
RECURSIVE Flatten(_)
Flatten(qq) == IF qq = <<>> THEN <<>> ELSE qq[1] \o Flatten(Tail(qq))

\* the running sum of the counts of the rows of one label, hour after hour
RECURSIVE CumSum(_, _)
CumSum(rs, before) ==
    IF rs = <<>> THEN <<>>
    ELSE <<[rs[1] EXCEPT !.cum = before + rs[1].count]>>
         \o CumSum(Tail(rs), before + rs[1].count)

\* a df_filtered that keeps the boardings only, whatever the analysis type
DfFilteredBoardings(facts, analysis_type) ==
    SelectSeq(facts, LAMBDA f : f.dir = SEUNGCHA)

\* df_filtered
DfFiltered(facts, analysis_type) ==
    IF analysis_type # JONGHAP
    THEN SelectSeq(facts, LAMBDA f : f.dir = analysis_type)
    ELSE facts

GetCumulativeData(long, combine_stations, analysis_type) ==
    LET df_filtered == DfFiltered(long.data, analysis_type)
        has_line == COL_LINE \in long.id_vars
        by_name == combine_stations \/ ~has_line
        hours == TimeList(df_filtered)
        index == SortKeys(Keys(df_filtered, by_name), by_name)
        \* groupby(...).sum(): the groups that have a row, by hour and key
        group(h, k) == SelectSeq(df_filtered,
                           LAMBDA f : f.hour = h /\ KeyOf(f, by_name) = k)
        grouped == Flatten([h \in 1..Len(hours) |->
                     Flatten([k \in 1..Len(index) |->
                        IF group(hours[h], index[k]) = <<>> THEN <<>>
                        ELSE <<[hour |-> hours[h],
                                line |-> index[k].line,
                                station |-> index[k].station,
                                label |-> Label(index[k]),
                                count |-> SumCounts(group(hours[h], index[k])),
                                cum |-> 0]>>])])
        wanted == SelectSeq(Desired, LAMBDA t : t \in Range(hours))
        order == IF wanted = <<>> THEN hours ELSE wanted
        labels == SortStrings({grouped[i].label : i \in 1..Len(grouped)})
        \* sort_values(label, hour): hours outside the categories come last
        of_label(l) ==
            Flatten([t \in 1..Len(order) |->
                SelectSeq(grouped, LAMBDA g : g.label = l /\ g.hour = order[t])])
            \o SelectSeq(grouped, LAMBDA g : g.label = l /\ g.hour \notin Range(order))
    IN  Flatten([l \in 1..Len(labels) |-> CumSum(of_label(labels[l]), 0)])

\* a TOP N that ranks the smallest cumulative value first
AnimationDataAscending(cumulative_data, top_n) ==
    LET n == Len(cumulative_data)
        rank(i) == 1 + Cardinality({k \in 1..n :
                        /\ cumulative_data[k].hour = cumulative_data[i].hour
                        /\ \/ cumulative_data[k].cum < cumulative_data[i].cum
                           \/ /\ cumulative_data[k].cum = cumulative_data[i].cum
                              /\ k < i})
    IN  TakeAt(cumulative_data, {i \in 1..n : rank(i) <= top_n}, 1)

\* rank(method='first', ascending=False) within the hour, rank <= top_n kept
AnimationData(cumulative_data, top_n) ==
    LET n == Len(cumulative_data)
        rank(i) == 1 + Cardinality({k \in 1..n :
                        /\ cumulative_data[k].hour = cumulative_data[i].hour
                        /\ \/ cumulative_data[k].cum > cumulative_data[i].cum
                           \/ /\ cumulative_data[k].cum = cumulative_data[i].cum
                              /\ k < i})
    IN  TakeAt(cumulative_data, {i \in 1..n : rank(i) <= top_n}, 1)

AnalysisTypes == {JONGHAP, SEUNGCHA, HACHA}

\* the names of get_cumulative_data bound to the caller's table itself:
\* df_filtered is df_long under the analysis type for both directions; a
\* selection by a mask and the output of groupby(...).sum() are new frames
FramesOfLong(analysis_type) ==
    IF analysis_type = JONGHAP THEN {"df_long", "df_filtered"} ELSE {"df_long"}

\* a sort_values(inplace=True) of df_filtered
SortedInPlaceFiltered == "df_filtered"

\* the frame of grouped.sort_values(..., inplace=True)
SortedInPlace == "grouped"

\* facts in the order of station name, then hour
SortFacts(facts) ==
    LET names == SortStrings({facts[i].station : i \in 1..Len(facts)})
    IN  Flatten([l \in 1..Len(names) |->
            Flatten([t \in 1..Len(Desired) |->
                SelectSeq(facts, LAMBDA f :
                    f.station = names[l] /\ f.hour = Desired[t])])])

\* the caller's df_long after get_cumulative_data returned
LongAfterCumulative(long, analysis_type) ==
    IF SortedInPlace \in FramesOfLong(analysis_type)
    THEN [long EXCEPT !.data = SortFacts(long.data)]
    ELSE long

\* the ends of the TOP N slider
TopNChoices06 == {5, 30}

ViewPage06(combine_stations, analysis_type, top_n) ==
    /\ page = "p06" /\ outcome = "ok" /\ view = NoView
    /\ LET cumulative_data ==
               GetCumulativeData(df_long, combine_stations, analysis_type)
       IN  view' = [kind |-> "cumulative",
                    combine_stations |-> combine_stations,
                    analysis_type |-> analysis_type,
                    top_n |-> top_n,
                    cumulative_data |-> cumulative_data,
                    animation_data |-> AnimationData(cumulative_data, top_n)]
    /\ df_long' = LongAfterCumulative(df_long, analysis_type)
    /\ RunKept

Next ==
    \/ RunMain
    \/ RunPage01
    \/ RunPage02
    \/ RunPage03
    \/ RunPage04
    \/ RunPage05
    \/ RunPage06
    \/ \E start_time, end_time \in SliderStops :
       \E top_n \in TopNChoices01 : \E combine_stations \in BOOLEAN :
           ViewPage01(start_time, end_time, top_n, combine_stations)
    \/ \E combine_stations \in BOOLEAN : ViewPage03(combine_stations)
    \/ \E combine_stations \in BOOLEAN : ViewPage04(combine_stations)
    \/ \E combine_stations \in BOOLEAN : \E station1, station2 \in AllKeys :
           ViewPage05(combine_stations, station1, station2)
    \/ \E combine_stations \in BOOLEAN : \E analysis_type \in AnalysisTypes :
       \E top_n \in TopNChoices06 :
           ViewPage06(combine_stations, analysis_type, top_n)

\* the ranking family: a boarding and an alighting column for the hours 04
\* and 05, and up to MaxRankRows stations of line 1, in no order of names;
\* a row holds one count in its boarding cells and 1 in its alighting cells
MaxRankRows == 6

RankStations == <<"C", "A", "F", "B", "E", "D", "G">>

RankCounts == {<<"-", "1">>, <<"1">>, <<"2">>}

InitRankFile ==
    LET hdrs == IdentityNames \o HourPairs(SubSeq(HourOrder, 1, 2))
                  \o <<COL_REGDATE>>
    IN  \E cs \in UNION {[1..k -> RankCounts] : k \in 0..MaxRankRows} :
          /\ headers = hdrs
          /\ rows = [r \in 1..Len(cs) |->
                        FileRow(hdrs, LINE_1, <<RankStations[r]>>,
                                [i \in 1..Len(hdrs) |->
                                    IF Contains(hdrs[i], SEUNGCHA) THEN cs[r]
                                    ELSE <<"1">>])]

InitRank == InitRankFile /\ Idle

NextRank ==
    \/ RunPage06
    \/ \E combine_stations \in BOOLEAN : \E analysis_type \in AnalysisTypes :
       \E top_n \in TopNChoices06 :
           ViewPage06(combine_stations, analysis_type, top_n)

SpecRank == InitRank /\ [][NextRank]_vars

\* the service-day files
InitDay == InitDayFile /\ Idle

SpecDay == InitDay /\ [][Next]_vars

Spec == Init /\ [][Next]_vars

-----------------------------------------------------------------------------
(* One header at a time: the files of SpecHeader hold the four identity     *)
(* columns, one header drawn from every text over HeaderAlphabet, and the   *)
(* registration date.                                                       *)

MaxHdrLen == 5

HeaderAlphabet == {"2", "4", ":", "si", "seung", "ha", "cha", " "}

AllHeaders == UNION {[1..k -> HeaderAlphabet] : k \in 1..MaxHdrLen}

OneHeaderFile(h) == IdentityNames \o <<h>> \o <<COL_REGDATE>>

InitHeader ==
    /\ \E h \in AllHeaders :
        /\ headers = OneHeaderFile(h)
        /\ rows = << FileRow(OneHeaderFile(h), LINE_1, STATION_A,
                             [i \in 1..Len(OneHeaderFile(h)) |-> <<"1">>]) >>
    /\ Idle

NextHeader == RunPage06

SpecHeader == InitHeader /\ [][NextHeader]_vars

-----------------------------------------------------------------------------
(* One cell at a time: the files of SpecCell hold one row whose boarding    *)
(* cell is drawn from every text over CellAlphabet, and two sample cells.   *)

MaxCellLen == 3

CellAlphabet == {"1", "5", ",", "-", ".", "i", "n", "f"}

AllCells ==
    UNION {[1..k -> CellAlphabet] : k \in 0..MaxCellLen}
      \cup { <<"1", ",", "2", "3", "4">>, <<"N", "/", "A">> }

OneCellHeaders == IdentityNames \o HourPairs(<< <<"0", "4">> >>) \o <<COL_REGDATE>>

InitCell ==
    /\ \E c \in AllCells :
        /\ headers = OneCellHeaders
        /\ rows = << FileRow(OneCellHeaders, LINE_1, STATION_A,
                             [i \in 1..Len(OneCellHeaders) |->
                                 IF i = Len(IdentityNames) + 1 THEN c ELSE <<"1">>]) >>
    /\ Idle

NextCell == RunMain \/ RunPage06

SpecCell == InitCell /\ [][NextCell]_vars

-----------------------------------------------------------------------------
(* Claims about the load *)

\* the pages whose loader returns the long table with hour and direction
LongPages == {"main", "p01", "p02", "p04", "p06"}

\* a row of the file with a line name and a station name, in the columns of
\* these the file has
IsValidFileRow(row) ==
    \A k \in {COL_LINE, COL_STATION} :
        HasColumn(headers, k) => row[ColumnIndex(headers, k)] \notin NATexts

ValidFileRows == SelectSeq(rows, IsValidFileRow)

\* the positions of the hourly columns of the loader's wide table, in order
CanonicalColumns ==
    LET hourly == {j \in 1..Len(df_wide.cols) : df_wide.cols[j] \notin BaseColumns}
    IN  TakeAt([j \in 1..Len(df_wide.cols) |-> j], hourly, 1)

\* the headers of the file that no loader treats as identity or trailing column
HourlyHeaders ==
    {i \in 1..Len(headers) : headers[i] \notin BaseColumns \cup {COL_REGDATE}}

SourceHeader(j) ==
    IF page = "p06" THEN TakeAt(headers, KeepMask(headers), 1)[j] ELSE headers[j]

TwoDigitHours == {Pad2(hh) : hh \in 0..23}

\* C7: every canonical hourly column of every loader has a two-digit hour label
\* in "00".."23", and is a boarding column exactly when its header holds the
\* boarding marker, an alighting column exactly when it holds the alighting one.
C7_ColumnsFollowMarkers ==
    (outcome = "ok" /\ page # "none") =>
        \A j \in 1..Len(df_wide.cols) :
            df_wide.cols[j] \notin BaseColumns =>
                /\ SplitFirst(df_wide.cols[j], "_") \in TwoDigitHours
                /\ SplitSecond(df_wide.cols[j], "_") \in {SEUNGCHA, HACHA}
                /\ SplitSecond(df_wide.cols[j], "_") = SEUNGCHA
                     <=> Contains(SourceHeader(j), SEUNGCHA)
                /\ SplitSecond(df_wide.cols[j], "_") = HACHA
                     <=> Contains(SourceHeader(j), HACHA)

\* no header of the file becomes an hourly column of pages/06
NoHourlySurvives ==
    \A i \in 1..Len(headers) : RenameColumn(headers[i]) \in BaseColumns \cup {NA}

\* C8 as stated: the load of pages/06 ends in the schema error, with no fact
\* table, when the line-name or the station-name column is absent and when no
\* hourly column survives.
C8_SchemaErrorAsStated ==
    page = "p06" =>
        ((\/ ~HasColumn(headers, COL_LINE)
          \/ ~HasColumn(headers, COL_STATION)
          \/ NoHourlySurvives)
            => (outcome = "schema_error" /\ df_long = NoLong))

\* C8 as amended: the load of pages/06 ends in the schema error, with no fact
\* table, exactly when the station-name column is absent or no hourly column
\* survives; an absent line-name column alone does not end it so.
C8_SchemaError ==
    page = "p06" =>
        /\ (~HasColumn(headers, COL_STATION) \/ NoHourlySurvives)
             => (outcome = "schema_error" /\ df_long = NoLong)
        /\ (HasColumn(headers, COL_STATION) /\ ~NoHourlySurvives)
             => outcome # "schema_error"

\* a file with a station-name column and no hourly column left, refused
C8_Witness ==
    /\ page = "p06"
    /\ HasColumn(headers, COL_STATION)
    /\ HourlyHeaders # {}
    /\ NoHourlySurvives
    /\ outcome = "schema_error"

-----------------------------------------------------------------------------
(* Claims about count parsing (SpecCell) *)

\* the cell SpecCell varies, and the fact made of it
TheCell == rows[1][Len(IdentityNames) + 1]
TheFact == df_long.data[1]

\* optional minus sign and digits, once the thousands separators are gone
IsIntegerText(t) ==
    LET body == IF t # <<>> /\ t[1] = "-" THEN Tail(t) ELSE t
    IN  body # <<>> /\ \A i \in 1..Len(body) : IsDigit(body[i])

IntegerValue(t) ==
    IF t[1] = "-" THEN 0 - DigitsValue(Tail(t)) ELSE DigitsValue(t)

\* a text with a digit and only digits, one sign and decimal points: the texts
\* a reader may take for a number; everything else is "not parseable"
LooksNumeric(t) ==
    /\ \E i \in 1..Len(t) : IsDigit(t[i])
    /\ \A i \in 1..Len(t) : IsDigit(t[i]) \/ t[i] \in {"-", "."}

\* C4: whatever the cell holds, the load does not raise, keeps the row, and the
\* count is an integer: the integer written in the cell once the separators are
\* stripped, and 0 for a missing, empty or unparseable cell.
C4_CountParsingTotal ==
    page \in {"main", "p06"} =>
        /\ outcome = "ok"
        /\ Len(df_long.data) = 2
        /\ TheFact.count \in Int
        /\ IsIntegerText(RemoveCommas(TheCell))
             => TheFact.count = IntegerValue(RemoveCommas(TheCell))
        /\ (TheCell \in NATexts \/ ~LooksNumeric(RemoveCommas(TheCell)))
             => TheFact.count = 0

\* C5: every fact of every long table has a non-negative count.
C5_CountNonNegative ==
    \A k \in 1..Len(df_long.data) : df_long.data[k].count >= 0

-----------------------------------------------------------------------------
(* Claims about the schema normaliser (SpecHeader) *)

\* the header SpecHeader varies, as the normaliser reads it, and whether the
\* load kept it as a column
TheHeader == Strip(headers[Len(IdentityNames) + 1])
TheHeaderKept == outcome = "ok" /\ Len(df_wide.cols) = Len(IdentityNames) + 1
TheColumn == df_wide.cols[Len(IdentityNames) + 1]

HasMarker(s) == Contains(s, SEUNGCHA) \/ Contains(s, HACHA)

\* k digits at position i of s, followed by one more character
DigitsAt(s, i, k) ==
    /\ i + k <= Len(s)
    /\ \A d \in 0..(k - 1) : IsDigit(s[i + d])

NumberAt(s, i, k) ==
    IF k = 2 THEN 10 * DigitVal(s[i]) + DigitVal(s[i + 1]) ELSE DigitVal(s[i])

\* a number of one or two digits at position i, right before ":" or "si"
BeforeSeparator(s, i, k) == DigitsAt(s, i, k) /\ s[i + k] \in {":", "si"}

\* a number of one or two digits at position i, which is the start of the header
\* or follows a blank, right before a character that is no digit
AfterBlank(s, i, k) ==
    /\ DigitsAt(s, i, k) /\ ~IsDigit(s[i + k])
    /\ (i = 1 \/ IsSpace(s[i - 1]))

SeparatorPlaces(s) ==
    {i \in 1..Len(s) : BeforeSeparator(s, i, 1) \/ BeforeSeparator(s, i, 2)}

BlankPlaces(s) ==
    {i \in 1..Len(s) : AfterBlank(s, i, 1) \/ AfterBlank(s, i, 2)}

Leftmost(places) == CHOOSE i \in places : \A j \in places : i <= j

\* the number right before the leftmost separator, two digits where there are
\* two; -1 when the header has no such number
SeparatorNumber(s) ==
    IF SeparatorPlaces(s) = {} THEN -1
    ELSE LET i == Leftmost(SeparatorPlaces(s))
         IN  NumberAt(s, i, IF BeforeSeparator(s, i, 2) THEN 2 ELSE 1)

\* the leftmost number after a blank or at the start; -1 when there is none
BlankNumber(s) ==
    IF BlankPlaces(s) = {} THEN -1
    ELSE LET i == Leftmost(BlankPlaces(s))
         IN  NumberAt(s, i, IF AfterBlank(s, i, 2) THEN 2 ELSE 1)

TheDirection(s) == IF Contains(s, SEUNGCHA) THEN SEUNGCHA ELSE HACHA

\* C6 as stated: the header is kept exactly when it holds a number of one or
\* two digits right before ":" or "si", that number is in 0..23 and the header
\* holds a marker; the column is then named by the padded number and the
\* marker; nothing raises.
C6_KeptIffSeparatorAsStated ==
    page = "p06" =>
        /\ outcome # "raised"
        /\ TheHeaderKept <=>
             (SeparatorNumber(TheHeader) \in 0..23 /\ HasMarker(TheHeader))
        /\ TheHeaderKept =>
             TheColumn = Pad2(SeparatorNumber(TheHeader)) \o <<"_">>
                           \o TheDirection(TheHeader)

\* C6 as amended: the number is the one before the leftmost separator or, in a
\* header with no such number, the leftmost number that starts the header or
\* follows a blank and is followed by a character that is no digit.
AmendedNumber(s) ==
    IF SeparatorPlaces(s) # {} THEN SeparatorNumber(s) ELSE BlankNumber(s)

C6_KeptIffHourFound ==
    page = "p06" =>
        /\ outcome # "raised"
        /\ TheHeaderKept <=>
             (AmendedNumber(TheHeader) \in 0..23 /\ HasMarker(TheHeader))
        /\ TheHeaderKept =>
             TheColumn = Pad2(AmendedNumber(TheHeader)) \o <<"_">>
                           \o TheDirection(TheHeader)

\* the header "22:hacha" kept as the column 22_hacha
C6_Witness ==
    /\ page = "p06"
    /\ TheHeader = <<"2", "2", ":", "ha", "cha">>
    /\ TheHeaderKept
    /\ TheColumn = <<"2", "2", "_", "ha", "cha">>

-----------------------------------------------------------------------------
(* The raw loader: _read_csv_any_encoding of pages/06 and the try/except of *)
(* load_data.  Bytes are numbers 0..255.                                     *)

\* cp949: a byte below 0x80 stands alone; a lead byte 0x81..0xFE takes a trail
\* byte 0x41..0x5A, 0x61..0x7A or 0x81..0xFE; 0x80 and 0xFF start nothing
Cp949Trail == (65..90) \cup (97..122) \cup (129..254)

RECURSIVE DecodesCp949(_, _)
DecodesCp949(b, i) ==
    IF i > Len(b) THEN TRUE
    ELSE IF b[i] < 128 THEN DecodesCp949(b, i + 1)
    ELSE IF b[i] \in 129..254 /\ i + 1 <= Len(b) /\ b[i + 1] \in Cp949Trail
         THEN DecodesCp949(b, i + 2)
         ELSE FALSE

\* UTF-8: a lead byte 0xC2..0xDF, 0xE0..0xEF or 0xF0..0xF4 takes one, two or
\* three continuation bytes 0x80..0xBF
Utf8Width(lead) ==
    IF lead < 128 THEN 1
    ELSE IF lead \in 194..223 THEN 2
    ELSE IF lead \in 224..239 THEN 3
    ELSE IF lead \in 240..244 THEN 4
    ELSE 0

RECURSIVE DecodesUtf8(_, _)
DecodesUtf8(b, i) ==
    IF i > Len(b) THEN TRUE
    ELSE LET w == Utf8Width(b[i])
         IN  /\ w > 0
             /\ i + w - 1 <= Len(b)
             /\ \A k \in (i + 1)..(i + w - 1) : b[k] \in 128..191
             /\ DecodesUtf8(b, i + w)

\* utf-8-sig: UTF-8 after an optional byte order mark EF BB BF
DecodesUtf8Sig(b) ==
    IF Len(b) >= 3 /\ SubSeq(b, 1, 3) = <<239, 187, 191>>
    THEN DecodesUtf8(b, 4)
    ELSE DecodesUtf8(b, 1)

Decodes(encoding, b) ==
    IF encoding = "cp949" THEN DecodesCp949(b, 1) ELSE DecodesUtf8Sig(b)

\* the encodings in the order they are tried
Encodings == <<"cp949", "utf-8-sig">>

\* what is left to read from position pos
Remaining(b, pos) == SubSeq(b, pos + 1, Len(b))

\* where a failed read may leave a file object; a path is opened anew by
\* every read_csv and keeps no position
PositionsAfterFailure(src) ==
    IF src.kind = "upload" THEN 0..Len(src.bytes) ELSE {0}

\* where the second read starts: reader.seek(0) on a file object
RetryStartNoSeek(src, pos) == pos

RetryStart(src, pos) == 0

\* the first read_csv, with cp949.  main.py reads a path only.
ReadFirst(p) ==
    /\ outcome = "idle" /\ attempts = <<>> /\ source # NoSource
    /\ p = "main" => source.kind = "path"
    /\ page' = p
    /\ attempts' = <<[encoding |-> Encodings[1], start |-> reader_pos]>>
    /\ IF Decodes(Encodings[1], Remaining(source.bytes, reader_pos))
       THEN outcome' = "read" /\ reader_pos' = Len(source.bytes)
       ELSE outcome' = "decode_failed"
            /\ reader_pos' \in PositionsAfterFailure(source)
    /\ UNCHANGED <<source, headers, rows, df_wide, df_long, df_raw,
                   df_pattern_normalized, view, session>>

\* except UnicodeDecodeError: the second read_csv, with utf-8-sig; its error is
\* not caught
ReadSecond ==
    /\ outcome = "decode_failed" /\ Len(attempts) = 1
    /\ LET start == RetryStart(source, reader_pos)
       IN  /\ attempts' = Append(attempts, [encoding |-> Encodings[2], start |-> start])
           /\ IF Decodes(Encodings[2], Remaining(source.bytes, start))
              THEN outcome' = "read"
              ELSE outcome' = "raised"
           /\ reader_pos' = Len(source.bytes)
    /\ UNCHANGED <<source, page, headers, rows, df_wide, df_long, df_raw,
                   df_pattern_normalized, view, session>>

MaxBytes == 4

\* "A", the two bytes of a cp949 syllable (B0 A1), the lead byte and the last
\* byte of a UTF-8 syllable (EA B0 80)
ByteAlphabet == {65, 176, 161, 234, 128}

InitDecode ==
    /\ \E k \in {"upload", "path"} :
       \E b \in UNION {[1..n -> ByteAlphabet] : n \in 0..MaxBytes} :
           source = [kind |-> k, bytes |-> b]
    /\ reader_pos = 0 /\ attempts = <<>>
    /\ headers = <<>> /\ rows = <<>>
    /\ page = "none" /\ outcome = "idle"
    /\ df_wide = NoTable /\ df_long = NoLong /\ df_raw = NoTable /\ view = NoView
    /\ df_pattern_normalized = NoProfiles
    /\ FreshSession

NextDecode ==
    \/ \E p \in {"main", "p06"} : ReadFirst(p)
    \/ ReadSecond

SpecDecode == InitDecode /\ [][NextDecode]_vars

\* C9: the attempts are cp949 first and, only after cp949 failed to decode the
\* source, utf-8-sig once, from the first byte; there is no third attempt; the
\* load ends with the table of the first encoding that decodes the source, and
\* raises when neither does.
C9_DecodeOrder ==
    /\ Len(attempts) <= 2
    /\ Len(attempts) >= 1 =>
         /\ attempts[1] = [encoding |-> "cp949", start |-> 0]
         /\ outcome = "read" <=>
              (DecodesCp949(source.bytes, 1)
                 \/ (Len(attempts) = 2 /\ DecodesUtf8Sig(source.bytes)))
    /\ Len(attempts) = 2 =>
         /\ attempts[2] = [encoding |-> "utf-8-sig", start |-> 0]
         /\ ~DecodesCp949(source.bytes, 1)
         /\ outcome = "raised" <=> ~DecodesUtf8Sig(source.bytes)
    /\ outcome = "raised" =>
         /\ Len(attempts) = 2
         /\ df_long = NoLong /\ df_wide = NoTable
    /\ (Len(attempts) = 1 /\ ~DecodesCp949(source.bytes, 1))
         => outcome = "decode_failed"

\* an uploaded UTF-8 file: cp949 failed part-way, utf-8-sig read it from the start
C9_Witness ==
    /\ source.kind = "upload"
    /\ Len(attempts) = 2
    /\ outcome = "read"
    /\ reader_pos = Len(source.bytes)

\* both encodings failed and the error went up
C9_WitnessRaised == Len(attempts) = 2 /\ outcome = "raised"

-----------------------------------------------------------------------------
(* The combine flag, the hour window and the registration date *)

\* the rows of a ranking or of a cumulative table that belong to a station
OfStation(table, station) == SelectSeq(table, LAMBDA g : g.station = station)

\* the lines a station has in the table
LinesOf(df, station) ==
    {k.line : k \in {x \in StationList(df, FALSE) : x.station = station}}

\* the ranking of one direction: each station's combined count is the sum of
\* the counts of its (line, station) rows in the ranking by line
RankingIsSum(dir, combined) ==
    LET by_line == WindowRanking(df_long.data, dir, view.start_time,
                                 view.end_time, view.top_n, FALSE)
    IN  \A i \in 1..Len(combined) :
            combined[i].count = SumCounts(OfStation(by_line, combined[i].station))

\* the comparison series of a station: each slot's combined counts are the sums
\* of the counts shown for the station on each of its lines
SeriesIsSum(station, series) ==
    LET lines == LinesOf(df_wide, station)
        of(l) == PlotSeries(df_wide, [line |-> l, station |-> station], FALSE)
    IN  \A t \in 1..Len(series) :
            /\ series[t].ride = SumOver(lines, [l \in lines |-> of(l)[t].ride])
            /\ series[t].alight = SumOver(lines, [l \in lines |-> of(l)[t].alight])

\* C2: in the time-window ranking, the cumulative ranking and the comparison
\* of two stations, the count shown for a station name with the combine flag
\* set is the sum, over the station's lines, of the counts shown for (line,
\* station) with the flag cleared, whatever rows the file repeats.
C2_CombineIsSumOfLines ==
    /\ (view.kind = "ranking" /\ view.combine_stations) =>
          /\ RankingIsSum(SEUNGCHA, view.station_ride)
          /\ RankingIsSum(HACHA, view.station_alight)
    /\ (view.kind = "cumulative" /\ view.combine_stations) =>
          LET by_line == GetCumulativeData(df_long, FALSE, view.analysis_type)
          IN  \A i \in 1..Len(view.cumulative_data) :
                LET g == view.cumulative_data[i]
                    parts == SelectSeq(by_line, LAMBDA b :
                                 b.station = g.station /\ b.hour = g.hour)
                IN  /\ g.count = SumCounts(parts)
                    /\ g.cum = SumOver(1..Len(parts),
                                       [k \in 1..Len(parts) |-> parts[k].cum])
    /\ (view.kind = "compare" /\ view.combine_stations) =>
          /\ SeriesIsSum(view.station1.station, view.series1)
          /\ SeriesIsSum(view.station2.station, view.series2)

\* the position of an hour in HourOrder
HourPosition(h) == CHOOSE i \in 1..Len(HourOrder) : HourOrder[i] = h

\* the hours met walking HourOrder from s to e, past its end to its start
\* when e stands before s
CyclicWalk(s, e) ==
    LET i == HourPosition(s)
        j == HourPosition(e)
    IN  IF i <= j THEN {HourOrder[k] : k \in i..j}
        ELSE {HourOrder[k] : k \in (i..Len(HourOrder)) \cup (1..j)}

\* C3: for every start hour s and end hour e of HourOrder, the facts the
\* time-window ranking selects are those whose hour lies on the cyclic walk
\* from s to e; from "23" to "01" these are the hours 23, 00 and 01.
C3_WindowWalksHourOrder ==
    (page = "p01" /\ outcome = "ok") =>
        \A s \in Range(HourOrder) : \A e \in Range(HourOrder) :
        \A dir \in {SEUNGCHA, HACHA} :
            FilterWindow(df_long.data, dir, s, e)
                = SelectSeq(df_long.data, LAMBDA f :
                      f.dir = dir /\ f.hour \in CyclicWalk(s, e))

\* C10: no column of a loader's table, hence no fact, is made of the
\* registration-date column, and no component of a profile of the
\* pattern-similarity page is.
C10_RegistrationDateDiscarded ==
    /\ (outcome = "ok" /\ page # "none") =>
          \A j \in 1..Len(df_wide.cols) : SourceHeader(j) # COL_REGDATE
    /\ view.kind = "pattern" => COL_REGDATE \notin Range(view.columns)

-----------------------------------------------------------------------------
(* Profiles *)

\* the count a key has in the raw table of pages/03 for one profile component
RawCount(key, component) ==
    LET mine == {<<r, j>> \in (1..Len(df_raw.data)) \X (1..Len(df_raw.cols)) :
                    /\ df_raw.cols[j] \notin BaseColumns
                    /\ SplitFirst(df_raw.cols[j], "~") = component
                    /\ Field(df_raw.cols, df_raw.data[r], COL_STATION) = key.station
                    /\ key.line \in {NA, Field(df_raw.cols, df_raw.data[r], COL_LINE)}}
    IN  SumOver(mine, [x \in mine |-> ToNumeric(df_raw.data[x[1]][x[2]]).val])

\* v is the share x / total, and 0 when the total is 0
IsShare(v, x, total) ==
    IF total = 0 THEN v.num = 0
    ELSE /\ v.den > 0
         /\ v.num * total = x * v.den
         /\ 0 <= v.num /\ v.num <= v.den

\* C11: every component of every profile is the key's count for the component
\* divided by the key's own total over all components, hence in [0,1], and 0
\* when the total is 0: for the profiles of main.py and for those of the
\* pattern-similarity page.
C11_ProfilesAreShares ==
    /\ (page = "main" /\ outcome = "ok") =>
          \A r \in 1..Len(df_pattern_normalized) :
              LET cs == PatternCols(df_wide.cols)
                  total == SumSeq([c \in 1..Len(cs) |-> df_wide.data[r][cs[c]]])
              IN  \A c \in 1..Len(cs) :
                      IsShare(df_pattern_normalized[r].values[c],
                              df_wide.data[r][cs[c]], total)
    /\ view.kind = "pattern" =>
          \A i \in 1..Len(view.index) :
              LET total == SumSeq([c \in 1..Len(view.columns) |->
                                      RawCount(view.index[i], view.columns[c])])
              IN  \A c \in 1..Len(view.columns) :
                      IsShare(view.values[i][c],
                              RawCount(view.index[i], view.columns[c]), total)

-----------------------------------------------------------------------------
(* Champions *)

\* the sum of all facts of a key at an hour and direction
Aggregated(key, hour, dir, combine_stations) ==
    SumCounts(SelectSeq(FactsAt(df_long.data, hour, dir),
                        LAMBDA f : KeyOf(f, combine_stations) = key))

ChampionKey(ch) == [line |-> ch.line, station |-> ch.station]

\* C12: in both combine modes, the champion of every hour and direction is a
\* key whose aggregated count is at least the aggregated count of every other
\* key at that hour and direction.
C12_ChampionHasMaximum ==
    view.kind = "champions" =>
        \A ch \in view.champions :
        \A k \in Keys(df_long.data, view.combine_stations) :
            Aggregated(ChampionKey(ch), ch.hour, ch.dir, view.combine_stations)
                >= Aggregated(k, ch.hour, ch.dir, view.combine_stations)

\* C13: in both combine modes, of the keys that tie for the largest aggregated
\* count at an hour and direction the champion is the smallest in the order of
\* the keys' texts, whatever the order of the rows of the file.
C13_ChampionTieBreak ==
    view.kind = "champions" =>
        \A ch \in view.champions :
        \A k \in Keys(df_long.data, view.combine_stations) :
            (Aggregated(k, ch.hour, ch.dir, view.combine_stations)
                = Aggregated(ChampionKey(ch), ch.hour, ch.dir, view.combine_stations))
            => (k = ChampionKey(ch) \/ KeyLess(ChampionKey(ch), k, FALSE))

-----------------------------------------------------------------------------
(* The cumulative ranking *)

\* the rows of a cumulative table at one hour
AtHour(table, hour) == SelectSeq(table, LAMBDA g : g.hour = hour)

HoursOf(table) == {table[i].hour : i \in 1..Len(table)}

\* C14: for every label of the cumulative table and every two of its hours, the
\* cumulative value at the hour that comes first in 04, 05, ..., 23, 00, 01 is
\* at most the cumulative value at the other.
C14_CumulativeNonDecreasing ==
    view.kind = "cumulative" =>
        \A i, k \in 1..Len(view.cumulative_data) :
            LET a == view.cumulative_data[i]
                b == view.cumulative_data[k]
            IN  (a.label = b.label /\ HourPosition(a.hour) < HourPosition(b.hour))
                    => a.cum <= b.cum

\* the running sum of a key up to and including an hour of HourOrder, from
\* the facts
RunningSum(g, analysis_type) ==
    SumCounts(SelectSeq(df_long.data, LAMBDA f :
        /\ f.station = g.station
        /\ g.line \in {NA, f.line}
        /\ analysis_type = JONGHAP \/ f.dir = analysis_type
        /\ HourPosition(f.hour) <= HourPosition(g.hour)))

Min(a, b) == IF a <= b THEN a ELSE b

\* C15: at every hour the TOP N filter keeps min(top_n, number of keys) rows
\* of the cumulative table, each with the key's running sum up to and including
\* that hour; no row left out at the hour has a cumulative value above that of a
\* row kept at the hour; the output holds no other row.
C15_TopNPerHour ==
    view.kind = "cumulative" =>
        /\ \A h \in HoursOf(view.cumulative_data) :
             LET all == AtHour(view.cumulative_data, h)
                 kept == AtHour(view.animation_data, h)
             IN  /\ Len(kept) = Min(view.top_n, Len(all))
                 /\ Range(kept) \subseteq Range(all)
                 /\ \A g \in Range(kept) : g.cum = RunningSum(g, view.analysis_type)
                 /\ \A o \in Range(all) \ Range(kept) :
                    \A g \in Range(kept) : o.cum <= g.cum
        /\ HoursOf(view.animation_data) \subseteq HoursOf(view.cumulative_data)

\* more keys than the TOP N: some are left out
C15_Witness ==
    /\ view.kind = "cumulative"
    /\ view.top_n = 5
    /\ Len(view.animation_data) = 10
    /\ Len(view.cumulative_data) = 12
    /\ \E i, k \in 1..12 :
          view.cumulative_data[i].cum # view.cumulative_data[k].cum

\* the count of a key at an hour in a cumulative table, 0 when it has no row
CountIn(table, g) ==
    SumCounts(SelectSeq(table, LAMBDA b :
        b.hour = g.hour /\ b.station = g.station /\ b.line = g.line))

\* C16: the count the cumulative computation aggregates for a key and hour
\* under the analysis type for both directions is the sum of the counts it
\* aggregates under boarding and under alighting; under a single direction it
\* is the sum of the key's facts of that direction at that hour.
C16_BothIsSumOfDirections ==
    view.kind = "cumulative" =>
        \A g \in Range(view.cumulative_data) :
            IF view.analysis_type = JONGHAP
            THEN g.count
                   = CountIn(GetCumulativeData(df_long, view.combine_stations, SEUNGCHA), g)
                   + CountIn(GetCumulativeData(df_long, view.combine_stations, HACHA), g)
            ELSE g.count
                   = SumCounts(SelectSeq(df_long.data, LAMBDA f :
                         /\ f.hour = g.hour /\ f.dir = view.analysis_type
                         /\ f.station = g.station /\ g.line \in {NA, f.line}))

\* both directions of a station with two boardings and one alighting an hour
C16_Witness ==
    /\ view.kind = "cumulative"
    /\ view.analysis_type = JONGHAP
    /\ \E g \in Range(view.cumulative_data) : g.count = 3

-----------------------------------------------------------------------------
(* The computations of the views *)

\* C17: no view ends with an exception: every aggregation, ranking and
\* comparison of a page completes on the table its loader returned, for every
\* parameter value that can be selected.
C17_ComputationsComplete == view # ViewRaised

\* the long table the loader of the page builds from the file
LongAsLoaded ==
    IF page = "p06" THEN LoadAndPrepData(headers, rows).long
    ELSE LoadData(headers, rows).long

\* C19: after a cumulative, champion or ranking computation the long table
\* has the rows, the row order, the columns and the values the loader built.
C19_FactTableUnchanged ==
    view.kind \in {"cumulative", "champions", "ranking"} =>
        df_long = LongAsLoaded

\* a cumulative computation over both directions, on facts that a sort by
\* station name would reorder
C19_Witness ==
    /\ view.kind = "cumulative"
    /\ view.analysis_type = JONGHAP
    /\ SortFacts(df_long.data) # df_long.data

\* C20: the column list _rename_columns_safely returns names each hour and
\* direction at most once, whatever the headers of the file.
C20_CanonicalNamesOnce ==
    (page = "p06" /\ outcome # "schema_error") =>
        LET cols == RenamedColumns(headers)
        IN  \A i, j \in 1..Len(cols) :
                (cols[i] = cols[j] /\ cols[i] \notin BaseColumns) => i = j

-----------------------------------------------------------------------------
(* The session: st.cache_data around the loaders *)

UploadNames == {"a.csv", "b.csv"}

\* the session is followed until the cache holds this many results
MaxCached == 3

\* the file of a content: one station, the hour 04, the content in every cell
CacheHeaders == IdentityNames \o HourPairs(<<HourOrder[1]>>) \o <<COL_REGDATE>>

CacheRows(c) ==
    << FileRow(CacheHeaders, LINE_1, STATION_A,
               [i \in 1..Len(CacheHeaders) |-> <<c>>]) >>

\* for path in [...]: try read, except FileNotFoundError: continue
RECURSIVE FirstFound(_, _)
FirstFound(d, k) ==
    IF k > Len(FallbackPaths) THEN Absent
    ELSE IF d[FallbackPaths[k]] # Absent THEN d[FallbackPaths[k]]
    ELSE FirstFound(d, k + 1)

\* the content a call of the loader would read now
SourceContent(fn) ==
    IF fn = LOAD_DATA THEN disk[FallbackPaths[2]]
    ELSE IF uploaded # NoUpload THEN uploaded.bytes
    ELSE FirstFound(disk, 1)

\* what the body of the loader returns for a content; None when no file
LoaderBody(fn, c) ==
    IF c = Absent THEN Failed("not_found")
    ELSE IF fn = LOAD_DATA THEN LoadData(CacheHeaders, CacheRows(c))
    ELSE LoadAndPrepData(CacheHeaders, CacheRows(c))

\* the key of st.cache_data: the function and the values of its arguments;
\* load_and_prep_data(file_bytes, source_hint), load_data()
CacheKey(fn) ==
    [fn |-> fn,
     args |-> IF fn = LOAD_DATA THEN <<>> ELSE <<uploaded.bytes, uploaded.name>>]

Cached(key) == \E e \in cache : e.key = key

CachedValue(key) == (CHOOSE e \in cache : e.key = key).value

\* st.file_uploader: the user picks a file
Upload(c, name) ==
    /\ uploaded # [bytes |-> c, name |-> name]
    /\ uploaded' = [bytes |-> c, name |-> name]
    /\ UNCHANGED <<source, reader_pos, attempts, headers, rows, page, outcome,
                   df_wide, df_long, df_raw, df_pattern_normalized, view,
                   disk, cache, built, called>>

\* the user removes the file from the uploader
ClearUpload ==
    /\ uploaded # NoUpload
    /\ uploaded' = NoUpload
    /\ UNCHANGED <<source, reader_pos, attempts, headers, rows, page, outcome,
                   df_wide, df_long, df_raw, df_pattern_normalized, view,
                   disk, cache, built, called>>

\* a file appears or changes at a fallback path
WriteFile(path, c) ==
    /\ disk[path] # c
    /\ disk' = [disk EXCEPT ![path] = c]
    /\ UNCHANGED <<source, reader_pos, attempts, headers, rows, page, outcome,
                   df_wide, df_long, df_raw, df_pattern_normalized, view,
                   uploaded, cache, built, called>>

\* the file at a fallback path is taken away
RemoveFile(path) ==
    /\ disk[path] # Absent
    /\ disk' = [disk EXCEPT ![path] = Absent]
    /\ UNCHANGED <<source, reader_pos, attempts, headers, rows, page, outcome,
                   df_wide, df_long, df_raw, df_pattern_normalized, view,
                   uploaded, cache, built, called>>

\* a script run up to the return of its cached loader: the stored value when
\* the key is in the cache, else the body runs and its return value is stored
CallLoader(fn) ==
    LET key == CacheKey(fn)
        c == SourceContent(fn)
        hit == Cached(key)
    IN  \E res \in {IF hit THEN CachedValue(key) ELSE LoaderBody(fn, c)} :
        /\ hit \/ Cardinality(cache) < MaxCached
        /\ called' = [fn |-> fn, content |-> c, result |-> res, hit |-> hit]
        /\ cache' = cache \cup {[key |-> key, value |-> res]}
        /\ built' = IF hit \/ c = Absent THEN built
                    ELSE [built EXCEPT ![<<fn, c>>] = @ + 1]
        /\ headers' = IF hit \/ c = Absent THEN headers ELSE CacheHeaders
        /\ rows' = IF hit \/ c = Absent THEN rows ELSE CacheRows(c)
        /\ page' = IF fn = LOAD_DATA THEN "main" ELSE "p06"
        /\ outcome' = res.outcome
        /\ df_wide' = res.wide
        /\ df_long' = res.long
        /\ df_pattern_normalized' = IF fn = LOAD_DATA /\ res.outcome = "ok"
                                     THEN PatternNormalized(res.wide)
                                     ELSE NoProfiles
        /\ view' = NoView
        /\ df_raw' = NoTable
        /\ UNCHANGED <<source, reader_pos, attempts, disk, uploaded>>

CallLoadAndPrepData == CallLoader(LOAD_AND_PREP_DATA)

CallLoadData == CallLoader(LOAD_DATA)

InitCache == headers = <<>> /\ rows = <<>> /\ Idle

NextCache ==
    \/ \E c \in SourceContents : \E name \in UploadNames : Upload(c, name)
    \/ ClearUpload
    \/ \E k \in 1..Len(FallbackPaths) : \E c \in SourceContents :
           WriteFile(FallbackPaths[k], c)
    \/ \E k \in 1..Len(FallbackPaths) : RemoveFile(FallbackPaths[k])
    \/ CallLoadAndPrepData
    \/ CallLoadData

SpecCache == InitCache /\ [][NextCache]_vars

\* C18: a loader call returns what its body gives for the content the source
\* has at the call, never a table or a not-found outcome stored for another
\* content, and no loader builds the table of one content more than once.
C18_BuiltOncePerContent ==
    /\ called # NoCall =>
           called.result = LoaderBody(called.fn, called.content)
    /\ \A b \in DOMAIN built : built[b] <= 1

====
